---- MODULE Spec2Model ----
(***************************************************************************)
(* Model of achgateway's merging-and-cutoff pipeline                       *)
(* (internal/pipeline/merging.go).  Paths and file contents are strings;   *)
(* the staging store (storage.Chest), the lease service (consul) and the   *)
(* NACHA codec are collaborators whose code is outside the excerpt and are *)
(* modelled from their contracts.                                          *)
(***************************************************************************)
EXTENDS Integers, Sequences, FiniteSets, TLC

VARIABLES
    now,      \* wall clock, in half seconds
    shard,    \* service.Shard configuration of the merger (static over a run)
    store,    \* per replica: the staging store (directories and files)
    lease,    \* holder of the outbound leadership key, or NoHolder
    xfers,    \* per replica and FileID: progress of HandleXfer
    cancels,  \* per replica: FileIDs for which HandleCancel has returned
    wm,       \* per worker: the locals of its WithEachMerged call
    rets,     \* per worker: what its last WithEachMerged call returned
    calls,    \* number of WithEachMerged calls started
    uploads,  \* every invocation of the upload callback so far
    reported, \* per replica: the FileIDs of all returned summaries
    faults,   \* injected collaborator failures so far
    probe,    \* inputs and result of the getNonCanceledMatches harness
    dl,       \* the ODFI downloader: its agent, its scratch tree, its call
    pd        \* the PagerDuty sink: its configuration, the incidents it created

vars == <<now, shard, store, lease, xfers, cancels, wm, rets, calls, uploads, reported, faults, probe, dl, pd>>

-----------------------------------------------------------------------------
(* Bounds of the model *)

MaxTime == 2
MaxCalls == 2
MaxCancels == 1
MaxFaults == 1

Replicas == {"r1", "r2"}
Workers == {"w1", "w2", "w3"}
FileIDs == {"AAA", "BBB"}

ReplicaOf(w) == IF w = "w3" THEN "r2" ELSE "r1"

ShardName == "sbx"
NoHolder == "none"
Nil == "nil"

-----------------------------------------------------------------------------
(* strings *)

HasPrefix(s, prefix) ==
    /\ Len(prefix) <= Len(s)
    /\ SubSeq(s, 1, Len(prefix)) = prefix

HasSuffix(s, suffix) ==
    /\ Len(suffix) <= Len(s)
    /\ SubSeq(s, Len(s) - Len(suffix) + 1, Len(s)) = suffix

TrimSuffix(s, suffix) ==
    IF HasSuffix(s, suffix) THEN SubSeq(s, 1, Len(s) - Len(suffix)) ELSE s

RECURSIVE LastIndex(_, _, _)
LastIndex(s, c, i) ==
    IF i = 0 THEN 0
    ELSE IF SubSeq(s, i, i) = c THEN i
    ELSE LastIndex(s, c, i - 1)

\* filepath.Base
Base(path) == SubSeq(path, LastIndex(path, "/", Len(path)) + 1, Len(path))

\* filepath.Dir
Dir(path) ==
    LET i == LastIndex(path, "/", Len(path))
    IN  IF i = 0 THEN "." ELSE SubSeq(path, 1, i - 1)

\* filepath.Join of two elements
Join(a, b) == a \o "/" \o b

\* strings.Replace(s, old, new, -1)
RECURSIVE ReplaceAll(_, _, _)
ReplaceAll(s, old, new) ==
    IF Len(s) < Len(old) THEN s
    ELSE IF HasPrefix(s, old)
         THEN new \o ReplaceAll(SubSeq(s, Len(old) + 1, Len(s)), old, new)
         ELSE SubSeq(s, 1, 1) \o ReplaceAll(SubSeq(s, 2, Len(s)), old, new)

Charset == "!,-./0123456789;ABCDEFGHIJKLMNOPQRSTUVWXYZ_abcdefghijklmnopqrstuvwxyz{}~"

CharCode(c) == CHOOSE i \in 1..Len(Charset) : SubSeq(Charset, i, i) = c

\* byte-wise order of strings, the order filepath.Glob lists names in
RECURSIVE StrLess(_, _)
StrLess(a, b) ==
    IF Len(b) = 0 THEN FALSE
    ELSE IF Len(a) = 0 THEN TRUE
    ELSE IF SubSeq(a, 1, 1) = SubSeq(b, 1, 1)
         THEN StrLess(SubSeq(a, 2, Len(a)), SubSeq(b, 2, Len(b)))
         ELSE CharCode(SubSeq(a, 1, 1)) < CharCode(SubSeq(b, 1, 1))

RECURSIVE SortedSeq(_)
SortedSeq(S) ==
    IF S = {} THEN <<>>
    ELSE LET m == CHOOSE x \in S : \A y \in S \ {x} : StrLess(x, y)
         IN  <<m>> \o SortedSeq(S \ {m})

Range(s) == {s[i] : i \in 1..Len(s)}

\* s lists each of its elements once, in the order of t
SubsequenceOf(s, t) ==
    \A i, j \in 1..Len(s) :
        i < j => \E k, l \in 1..Len(t) : k < l /\ t[k] = s[i] /\ t[l] = s[j]

-----------------------------------------------------------------------------
(* storage.Chest: a tree of directories and files below the storage root *)

EmptyStore == [dirs |-> {}, files |-> [p \in {} |-> ""]]

Under(path, dir) == HasPrefix(path, dir \o "/")

Rebase(path, old, new) == new \o SubSeq(path, Len(old) + 1, Len(path))

HasEntries(st, dir) ==
    \/ \E p \in DOMAIN st.files : Dir(p) = dir
    \/ \E d \in st.dirs : Dir(d) = dir

WriteFile(st, path, data) ==
    [dirs  |-> st.dirs \cup {Dir(path)},
     files |-> [p \in (DOMAIN st.files) \cup {path} |->
                   IF p = path THEN data ELSE st.files[p]]]

RemoveFile(st, path) ==
    [dirs  |-> st.dirs,
     files |-> [p \in (DOMAIN st.files) \ {path} |-> st.files[p]]]

\* ReplaceFile(oldpath, newpath): newpath exists afterwards; an existing oldpath
\* either moves to it or keeps standing next to it (keep).
ReplaceFile(st, oldpath, newpath, keep) ==
    IF oldpath \notin DOMAIN st.files
    THEN WriteFile(st, newpath, "")
    ELSE IF keep
         THEN WriteFile(st, newpath, "")
         ELSE RemoveFile(WriteFile(st, newpath, st.files[oldpath]), oldpath)

\* ReplaceDir(oldpath, newpath): rename(2) of a directory
ReplaceDirErr(st, oldpath, newpath) ==
    IF oldpath \notin st.dirs THEN "no such file or directory"
    ELSE IF newpath \in st.dirs /\ HasEntries(st, newpath) THEN "directory not empty"
    ELSE Nil

ReplaceDir(st, oldpath, newpath) ==
    LET moved(p) == p = oldpath \/ Under(p, oldpath)
        to(p)    == IF moved(p) THEN Rebase(p, oldpath, newpath) ELSE p
        keptF    == {p \in DOMAIN st.files : ~moved(p)}
        movedF   == {p \in DOMAIN st.files : moved(p)}
    IN  [dirs  |-> {to(d) : d \in st.dirs},
         files |-> [q \in keptF \cup {to(p) : p \in movedF} |->
                       IF q \in keptF THEN st.files[q]
                       ELSE st.files[CHOOSE p \in movedF : to(p) = q]]]

\* Glob(dir + "/*" + suffix): the entries of dir whose name ends with suffix,
\* in lexical order
Glob(st, dir, suffix) ==
    SortedSeq({p \in DOMAIN st.files : Dir(p) = dir /\ HasSuffix(Base(p), suffix)})

MkdirAll(st, dir) == [st EXCEPT !.dirs = @ \cup {dir}]

RmdirAll(st, dir) ==
    [dirs  |-> {d \in st.dirs : d # dir /\ ~Under(d, dir)},
     files |-> [p \in {q \in DOMAIN st.files : ~Under(q, dir)} |-> st.files[p]]]

-----------------------------------------------------------------------------
(* the NACHA codec (github.com/moov-io/ach), as far as the merger uses it *)

\* A parsed file is a sequence of batches, each a sequence of entries.  An entry
\* starting with "~" only passes validation under lenient ValidateOpts.

RECURSIVE JoinWith(_, _)
JoinWith(seq, sep) ==
    IF Len(seq) = 0 THEN ""
    ELSE IF Len(seq) = 1 THEN seq[1]
    ELSE seq[1] \o sep \o JoinWith(Tail(seq), sep)

RECURSIVE WriteBatches(_)
WriteBatches(batches) ==
    IF Len(batches) = 0 THEN ""
    ELSE JoinWith(batches[1], ",") \o ";" \o WriteBatches(Tail(batches))

\* ach.NewWriter(&buf).Write(file)
AchWrite(file) == WriteBatches(file.batches)

\* the pieces of s between occurrences of sep (a trailing sep ends the last piece)
RECURSIVE SplitAt(_, _, _)
SplitAt(s, sep, cur) ==
    IF Len(s) = 0 THEN (IF cur = "" THEN <<>> ELSE <<cur>>)
    ELSE IF SubSeq(s, 1, 1) = sep
         THEN <<cur>> \o SplitAt(SubSeq(s, 2, Len(s)), sep, "")
         ELSE SplitAt(SubSeq(s, 2, Len(s)), sep, cur \o SubSeq(s, 1, 1))

ReadBatches(data) ==
    LET bs == SplitAt(data, ";", "")
    IN  [i \in 1..Len(bs) |-> SplitAt(bs[i], ",", "")]

\* ach.Reader.Read with the ValidateOpts set on the reader (Nil: defaults)
AchReadErr(data, opts) ==
    LET bs == ReadBatches(data)
    IN  IF data = "" \/ ~HasSuffix(data, ";") THEN "invalid file"
        ELSE IF \E i \in 1..Len(bs) : Len(bs[i]) = 0 \/ \E j \in 1..Len(bs[i]) : bs[i][j] = ""
             THEN "invalid file"
        ELSE IF opts # "lenient" /\ \E i \in 1..Len(bs) : \E j \in 1..Len(bs[i]) : HasPrefix(bs[i][j], "~")
             THEN "validation failed"
        ELSE Nil

AchRead(data) == [batches |-> ReadBatches(data)]

\* json.Encoder.Encode / json.Decoder.Decode of ach.ValidateOpts
EncodeOpts(opts) == "{" \o opts \o "}"

DecodeOpts(data) ==
    IF Len(data) >= 2 /\ HasPrefix(data, "{") /\ HasSuffix(data, "}")
    THEN SubSeq(data, 2, Len(data) - 1)
    ELSE "default"

RECURSIVE Flatten(_)
Flatten(seqs) == IF Len(seqs) = 0 THEN <<>> ELSE seqs[1] \o Flatten(Tail(seqs))

\* File.FlattenBatches: one batch holding every entry
FlattenBatches(file) == [batches |-> <<Flatten(file.batches)>>]

\* ach.MergeFiles: every batch in one file
MergeFiles(files) ==
    IF Len(files) = 0 THEN <<>>
    ELSE <<[batches |-> Flatten([i \in 1..Len(files) |-> files[i].batches])]>>

\* ach.MergeFilesWith: at most conditions.maxBatches batches per file
RECURSIVE Chunks(_, _)
Chunks(batches, n) ==
    IF Len(batches) = 0 THEN <<>>
    ELSE IF Len(batches) <= n THEN <<[batches |-> batches]>>
    ELSE <<[batches |-> SubSeq(batches, 1, n)]>> \o Chunks(SubSeq(batches, n + 1, Len(batches)), n)

MergeFilesWith(files, conditions) ==
    Chunks(Flatten([i \in 1..Len(files) |-> files[i].batches]), conditions)

-----------------------------------------------------------------------------
(* internal/pipeline/merging.go: pure parts *)

MergableDir == Join("mergable", ShardName)

\* the transfer written next to the shard's pending directory, not into it
AchPathBesidePending(id) == Join("mergable", id \o ".ach")

\* line 98: where writeACHFile puts the transfer
AchPath(id) == Join(MergableDir, id \o ".ach")

OptsPath(id) == Join(MergableDir, id \o ".json")

\* The transfers producers send: BBB carries ValidateOpts and an entry that only
\* validates under them.
XferFile(id) ==
    IF id = "BBB"
    THEN [batches |-> <<<<"~" \o id>>>>, validation |-> "lenient"]
    ELSE [batches |-> <<<<id>>>>, validation |-> Nil]

\* time.Now().Format("20060102-150405"): the clock cut to whole seconds
TimeFormat(t) == "20260101-00000" \o ToString(t \div 2)

\* isolateMergableDir: the name of the batch directory
NewDir(t) == ShardName \o "-" \o TimeFormat(t)

\* the tombstone matched by its exact name only
ExcludedExactly(negativeMatches, positive, j) ==
    \E k \in j..Len(negativeMatches) : negativeMatches[k] = positive \o ".canceled"

\* no tombstone honoured
ExcludedNever(negativeMatches, positive, j) == FALSE

\* the inner loop of getNonCanceledMatches (over j, with its break)
RECURSIVE Excluded(_, _, _)
Excluded(negativeMatches, positive, j) ==
    IF j > Len(negativeMatches) THEN FALSE
    ELSE IF HasPrefix(negativeMatches[j], positive) THEN TRUE
    ELSE Excluded(negativeMatches, positive, j + 1)

\* the outer loop of getNonCanceledMatches (over i)
RECURSIVE NonCanceled(_, _, _)
NonCanceled(positiveMatches, negativeMatches, i) ==
    IF i > Len(positiveMatches) THEN <<>>
    ELSE (IF Excluded(negativeMatches, positiveMatches[i], 1)
          THEN <<>> ELSE <<positiveMatches[i]>>)
         \o NonCanceled(positiveMatches, negativeMatches, i + 1)

getNonCanceledMatches(st, path) ==
    NonCanceled(Glob(st, path, ".ach"), Glob(st, path, ".canceled"), 1)

NilSummary == [nil |-> TRUE, shardKey |-> "", fileIDs |-> <<>>]

\* &processedFiles{}
EmptyProcessed == [nil |-> FALSE, shardKey |-> "", fileIDs |-> <<>>]

newProcessedFiles(shardKey, matches) ==
    [nil      |-> FALSE,
     shardKey |-> shardKey,
     fileIDs  |-> [i \in 1..Len(matches) |-> TrimSuffix(Base(matches[i]), ".ach")]]

\* readFile: the error it returns (Nil: none)
readFileErr(st, path) ==
    LET optsPath == ReplaceAll(path, ".ach", ".json")
        opts     == IF optsPath \in DOMAIN st.files
                    THEN DecodeOpts(st.files[optsPath]) ELSE Nil
    IN  IF path \notin DOMAIN st.files THEN "no such file or directory"
        ELSE AchReadErr(st.files[path], opts)

readFile(st, path) == AchRead(st.files[path])

\* the read loop of WithEachMerged: the parsed files and the error list
RECURSIVE ReadMatches(_, _, _)
ReadMatches(st, matches, i) ==
    IF i > Len(matches) THEN [files |-> <<>>, el |-> <<>>]
    ELSE LET rest == ReadMatches(st, matches, i + 1)
             err  == readFileErr(st, matches[i])
         IN  IF err # Nil
             THEN [files |-> rest.files,
                   el    |-> <<"problem reading " \o matches[i] \o ": " \o err>> \o rest.el]
             ELSE [files |-> <<readFile(st, matches[i])>> \o rest.files,
                   el    |-> rest.el]

\* the merge the shard's configuration selects
Merge(files, conditions) ==
    IF conditions # 0 THEN MergeFilesWith(files, conditions) ELSE MergeFiles(files)

\* hash: hex of the SHA-256 of data
hash(data) == "sha256_" \o ReplaceAll(ReplaceAll(ReplaceAll(data, ";", "_"), ",", "-"), "~", "!")

\* saveMergedFile: the path it writes
MergedPath(dir, file) == Join(dir, hash(AchWrite(file)) \o ".ach")

\* the merged file saved under its name without its bytes
saveMergedFileEmpty(st, dir, file) == WriteFile(st, MergedPath(dir, file), "")

\* lines 324-333
saveMergedFile(st, dir, file) == WriteFile(st, MergedPath(dir, file), AchWrite(file))

LeaderKey == "achgateway/outbound/" \o ShardName

\* what WithEachMerged returns after the upload loop
ReturnValue(el, matches) ==
    IF el # <<>>
    THEN [summary |-> NilSummary, err |-> el]
    ELSE [summary |-> newProcessedFiles(ShardName, matches), err |-> <<>>]

-----------------------------------------------------------------------------
(* consul.AcquireLock: the lease of the shard's leadership key *)

\* the error of AcquireLock for replica r (Nil: r holds the lease afterwards)
AcquireLockErr(holder, r) ==
    IF holder = NoHolder \/ holder = r THEN Nil ELSE "we aren't the leader"

-----------------------------------------------------------------------------
(* state *)

\* The locals of a call: dir, matches, files, el and i are the variables of the
\* code.  The others record what happened in the call: whether the pending
\* directory held no transfer at isolation (pendingEmpty), the *.ach paths and
\* the cancelled FileIDs of the batch, whether a step other than AcquireLock
\* failed (failed), whether the merge failed (mergeFailed), the output indices
\* for which the lease was acquired (leader) or not (follower), the paths
\* saved, and the selected paths readFile failed on (unread).
IdleWorker ==
    [pc |-> "idle", call |-> 0, dir |-> "", updir |-> "", matches |-> <<>>,
     files |-> <<>>, el |-> <<>>, i |-> 0,
     pendingEmpty |-> FALSE, positives |-> <<>>, cancelled |-> {},
     failed |-> FALSE, mergeFailed |-> FALSE,
     leader |-> {}, follower |-> {}, saved |-> {}, unread |-> {}]

\* what the last call of a worker returned, and the locals it ended with
NoReturn == [summary |-> NilSummary, err |-> <<>>, loc |-> IdleWorker]

ShardConfigs == {[conditions |-> 0, flatten |-> FALSE], [conditions |-> 1, flatten |-> TRUE]}

NoProbe == [positive |-> {}, negative |-> {}, out |-> <<>>, done |-> FALSE]

\* no downloader at work
NoDownload == [pc |-> "none"]

\* no PagerDuty sink configured
NoPagerDuty == [serviceKey |-> ""]

Init ==
    /\ now = 0
    /\ shard \in ShardConfigs
    /\ store = [r \in Replicas |-> EmptyStore]
    /\ lease = NoHolder
    /\ xfers = [r \in Replicas |-> [id \in FileIDs |-> "new"]]
    /\ cancels = [r \in Replicas |-> {}]
    /\ wm = [w \in Workers |-> IdleWorker]
    /\ rets = [w \in Workers |-> NoReturn]
    /\ calls = 0
    /\ uploads = {}
    /\ reported = [r \in Replicas |-> {}]
    /\ faults = 0
    /\ pd = NoPagerDuty
    /\ probe = NoProbe
    /\ dl = NoDownload

InLoop(w) == wm[w].pc \in {"save", "acquire", "callback"}

\* n collaborator failures are injected in this step
FaultsUsed(n) == faults + n <= MaxFaults /\ faults' = faults + n

Fault == FaultsUsed(1)

NoFault == FaultsUsed(0)

-----------------------------------------------------------------------------
(* environment *)

Tick ==
    /\ now < MaxTime
    /\ now' = now + 1
    /\ UNCHANGED <<shard, store, lease, xfers, cancels, wm, rets, calls, uploads, reported, faults, probe, dl, pd>>

\* the session behind the lease ends once its holder is outside the upload phase
LeaseExpire ==
    /\ lease # NoHolder
    /\ \A w \in Workers : ReplicaOf(w) = lease => ~InLoop(w)
    /\ lease' = NoHolder
    /\ UNCHANGED <<now, shard, store, xfers, cancels, wm, rets, calls, uploads, reported, faults, probe, dl, pd>>

-----------------------------------------------------------------------------
(* HandleXfer (writeACHFile) and HandleCancel *)

\* writeACHFile up to the first WriteFile
XferWriteAch(r, id) ==
    /\ xfers[r][id] = "new"
    /\ \/ /\ NoFault
          /\ store' = [store EXCEPT ![r] = WriteFile(@, AchPath(id), AchWrite(XferFile(id)))]
          /\ xfers' = [xfers EXCEPT ![r][id] =
                          IF XferFile(id).validation # Nil THEN "ach" ELSE "done"]
       \/ /\ Fault
          /\ xfers' = [xfers EXCEPT ![r][id] = "failed"]
          /\ UNCHANGED store
    /\ UNCHANGED <<now, shard, lease, cancels, wm, rets, calls, uploads, reported, probe, dl, pd>>

\* writeACHFile from the ValidateOpts on: a failed write is only logged
XferWriteOpts(r, id) ==
    /\ xfers[r][id] = "ach"
    /\ \/ /\ NoFault
          /\ store' = [store EXCEPT ![r] =
                          WriteFile(@, OptsPath(id), EncodeOpts(XferFile(id).validation))]
       \/ /\ Fault
          /\ UNCHANGED store
    /\ xfers' = [xfers EXCEPT ![r][id] = "done"]
    /\ UNCHANGED <<now, shard, lease, cancels, wm, rets, calls, uploads, reported, probe, dl, pd>>

\* the tombstone named after the FileID alone
CanceledPathBare(path) == TrimSuffix(path, ".ach") \o ".canceled"

\* line 128: the name of the tombstone of the transfer at path
CanceledPath(path) == path \o ".canceled"

\* lines 124-129
HandleCancel(r, id) ==
    /\ Cardinality(cancels[r]) < MaxCancels
    /\ id \notin cancels[r]
    /\ \E keep \in BOOLEAN :
          store' = [store EXCEPT ![r] =
                       ReplaceFile(@, AchPath(id), CanceledPath(AchPath(id)), keep)]
    /\ cancels' = [cancels EXCEPT ![r] = @ \cup {id}]
    /\ UNCHANGED <<now, shard, lease, xfers, wm, rets, calls, uploads, reported, faults, probe, dl, pd>>

-----------------------------------------------------------------------------
(* WithEachMerged *)

\* the call of worker w, with locals loc, returns (summary, err)
Return(w, loc, summary, err) ==
    /\ wm' = [wm EXCEPT ![w] = IdleWorker]
    /\ rets' = [rets EXCEPT ![w] = [summary |-> summary, err |-> err, loc |-> loc]]
    /\ reported' = [reported EXCEPT ![ReplicaOf(w)] =
                       IF summary.nil THEN @ ELSE @ \cup Range(summary.fileIDs)]

\* the return at line 220 dropped: the error of isolateMergableDir is ignored
IsolateErrorIgnored(err) == FALSE

\* line 219: the error of isolateMergableDir ends the call
IsolateFailed(err) == err # Nil

\* lines 215-221: isolateMergableDir and the return on its error
Isolate(w) ==
    LET r      == ReplicaOf(w)
        newdir == NewDir(now)
        err    == ReplaceDirErr(store[r], MergableDir, newdir)
        loc    == [IdleWorker EXCEPT !.call = calls + 1, !.dir = newdir,
                                     !.pendingEmpty = Glob(store[r], MergableDir, ".ach") = <<>>]
    IN  /\ wm[w].pc = "idle"
        /\ calls < MaxCalls
        /\ calls' = calls + 1
        /\ IF IsolateFailed(err)
           THEN /\ Return(w, [loc EXCEPT !.failed = TRUE], NilSummary,
                          <<"problem isolating newdir=" \o newdir \o " error=" \o err>>)
                /\ UNCHANGED store
           ELSE /\ store' = [store EXCEPT ![r] = ReplaceDir(@, MergableDir, newdir)]
                /\ wm' = [wm EXCEPT ![w] = [loc EXCEPT !.pc = "select"]]
                /\ UNCHANGED <<rets, reported>>
        /\ UNCHANGED <<now, shard, lease, xfers, cancels, uploads, faults, probe, dl, pd>>

\* the FileIDs of the transfers in dir that HandleCancel has tombstoned: the
\* tombstone stands next to the transfer or holds its bytes
CancelledIn(st, dir) ==
    {id \in FileIDs :
        LET ach == Join(dir, id \o ".ach")
        IN  /\ (ach \o ".canceled") \in DOMAIN st.files
            /\ (ach \in DOMAIN st.files \/ st.files[ach \o ".canceled"] # "")}

\* lines 223-242: getNonCanceledMatches, the return on its error, the read loop
Select(w) ==
    LET r       == ReplicaOf(w)
        matches == getNonCanceledMatches(store[r], wm[w].dir)
        res     == ReadMatches(store[r], matches, 1)
    IN  /\ wm[w].pc = "select"
        /\ \/ /\ NoFault
              /\ wm' = [wm EXCEPT ![w].pc = "merge", ![w].matches = matches,
                                  ![w].files = res.files, ![w].el = res.el,
                                  ![w].failed = res.el # <<>>,
                                  ![w].positives = Glob(store[r], wm[w].dir, ".ach"),
                                  ![w].unread = {p \in Range(matches) : readFileErr(store[r], p) # Nil},
                                  ![w].cancelled = CancelledIn(store[r], wm[w].dir)]
              /\ UNCHANGED <<rets, reported>>
           \/ /\ Fault
              /\ Return(w, [wm[w] EXCEPT !.failed = TRUE], NilSummary,
                        <<"problem with " \o wm[w].dir \o " glob: i/o error">>)
        /\ UNCHANGED <<now, shard, store, lease, xfers, cancels, calls, uploads, probe, dl, pd>>

\* lines 260-268: remove the batch directory or create uploaded/
PrepareDir(st, dir, files, rmdirFails) ==
    IF Len(files) = 0
    THEN (IF rmdirFails THEN st ELSE RmdirAll(st, dir))
    ELSE MkdirAll(st, Join(dir, "uploaded"))

\* lines 244-268: the merge (a failed merge hands back no files), then the
\* output directory
MergeStep(w) ==
    LET r == ReplicaOf(w)
    IN  /\ wm[w].pc = "merge"
        /\ \E mergeFails \in BOOLEAN, rmdirFails \in BOOLEAN :
              LET files == IF mergeFails THEN <<>> ELSE Merge(wm[w].files, shard.conditions)
                  el1   == IF mergeFails
                           THEN Append(wm[w].el, "unable to merge files: merge error")
                           ELSE wm[w].el
                  el2   == IF rmdirFails THEN Append(el1, "rmdir error") ELSE el1
              IN  /\ rmdirFails => Len(files) = 0
                  /\ FaultsUsed((IF mergeFails THEN 1 ELSE 0) + (IF rmdirFails THEN 1 ELSE 0))
                  /\ store' = [store EXCEPT ![r] = PrepareDir(@, wm[w].dir, files, rmdirFails)]
                  /\ wm' = [wm EXCEPT ![w].pc = "agent", ![w].files = files, ![w].el = el2,
                                      ![w].failed = @ \/ mergeFails \/ rmdirFails,
                                      ![w].mergeFailed = mergeFails,
                                      ![w].updir = IF Len(files) = 0 THEN wm[w].dir
                                                   ELSE Join(wm[w].dir, "uploaded")]
        /\ UNCHANGED <<now, shard, lease, xfers, cancels, rets, calls, uploads, reported, probe, dl, pd>>

\* where the upload loop goes for index i (1-based)
LoopPc(loc, i) == IF i > Len(loc.files) THEN "return" ELSE "save"

\* lines 270-274: upload.New and the return on its error
Agent(w) ==
    /\ wm[w].pc = "agent"
    /\ \/ /\ NoFault
          /\ wm' = [wm EXCEPT ![w].pc = LoopPc(wm[w], 1), ![w].i = 1]
          /\ UNCHANGED <<rets, reported>>
       \/ /\ Fault
          /\ Return(w, [wm[w] EXCEPT !.failed = TRUE], EmptyProcessed,
                    <<ShardName \o " merging agent: unknown agent">>)
    /\ UNCHANGED <<now, shard, store, lease, xfers, cancels, calls, uploads, probe, dl, pd>>

\* the loop going round on the same index
ContinueSameIndex(loc) == [loc EXCEPT !.pc = LoopPc(loc, loc.i)]

\* the next iteration of the upload loop
Continue(loc) == [loc EXCEPT !.i = @ + 1, !.pc = LoopPc(loc, loc.i + 1)]

\* the file that could not be saved taken to the lease and the callback
AfterSaveErrorGoesOn(loc) == [loc EXCEPT !.pc = "acquire"]

\* line 292: continue, skipping AcquireLock and the callback for this file
AfterSaveError(loc) == Continue(loc)

\* lines 280-293: flatten if configured, then saveMergedFile
Save(w) ==
    LET r == ReplicaOf(w)
        i == wm[w].i
    IN  /\ wm[w].pc = "save"
        /\ \E flattenFails \in BOOLEAN, saveFails \in BOOLEAN :
              LET loc == IF ~shard.flatten THEN wm[w]
                         ELSE IF flattenFails
                              THEN [wm[w] EXCEPT !.el = Append(@, "flatten error"),
                                                 !.failed = TRUE]
                              ELSE [wm[w] EXCEPT !.files[i] = FlattenBatches(@)]
              IN  /\ flattenFails => shard.flatten
                  /\ FaultsUsed((IF flattenFails THEN 1 ELSE 0) + (IF saveFails THEN 1 ELSE 0))
                  /\ IF saveFails
                     THEN /\ wm' = [wm EXCEPT ![w] =
                                       AfterSaveError([loc EXCEPT !.failed = TRUE, !.el =
                                           Append(@, "problem writing merged file: write error")])]
                          /\ UNCHANGED store
                     ELSE /\ store' = [store EXCEPT ![r] =
                                          saveMergedFile(@, loc.updir, loc.files[i])]
                          /\ wm' = [wm EXCEPT ![w] =
                                       [loc EXCEPT !.pc = "acquire",
                                                   !.saved = @ \cup {MergedPath(loc.updir, loc.files[i])}]]
        /\ UNCHANGED <<now, shard, lease, xfers, cancels, rets, calls, uploads, reported, probe, dl, pd>>

\* the denied lease added to the error list, like the failures around it
LeaseDeniedIsError(el, err) == Append(el, "skipping file upload: " \o err)

\* lines 301-302: a lease that was not acquired is logged, nothing else
LeaseDenied(el, err) == el

\* lines 295-303: consul.AcquireLock for the shard's leader key
Acquire(w) ==
    LET r   == ReplicaOf(w)
        i   == wm[w].i
        err == AcquireLockErr(lease, r)
    IN  /\ wm[w].pc = "acquire"
        /\ \/ /\ NoFault
              /\ IF err = Nil
                 THEN /\ lease' = r
                      /\ wm' = [wm EXCEPT ![w].pc = "callback", ![w].leader = @ \cup {i}]
                 ELSE /\ UNCHANGED lease
                      /\ wm' = [wm EXCEPT ![w] =
                                   Continue([wm[w] EXCEPT !.follower = @ \cup {i},
                                                          !.el = LeaseDenied(@, err)])]
           \/ /\ Fault
              /\ UNCHANGED lease
              /\ wm' = [wm EXCEPT ![w] =
                           Continue([wm[w] EXCEPT !.follower = @ \cup {i},
                                                  !.el = LeaseDenied(@, "Unable to get kv leader")])]
        /\ UNCHANGED <<now, shard, store, xfers, cancels, rets, calls, uploads, reported, probe, dl, pd>>

\* the invocation f(i, agent, files[i]) and what it was handed
Invocation(w, ok) ==
    [replica |-> ReplicaOf(w), call |-> wm[w].call, dir |-> wm[w].dir,
     index |-> wm[w].i - 1, data |-> AchWrite(wm[w].files[wm[w].i]), ok |-> ok]

\* the error of the callback logged only, like a lease that was not acquired
CallbackErrorDropped(el, err) == el

\* line 308: the error of the callback joins the error list
CallbackError(el, err) == Append(el, "problem from callback: " \o err)

\* lines 304-311: the upload callback
Callback(w) ==
    /\ wm[w].pc = "callback"
    /\ \/ /\ NoFault
          /\ uploads' = uploads \cup {Invocation(w, TRUE)}
          /\ wm' = [wm EXCEPT ![w] = Continue(wm[w])]
       \/ /\ Fault
          /\ uploads' = uploads \cup {Invocation(w, FALSE)}
          /\ wm' = [wm EXCEPT ![w] =
                       Continue([wm[w] EXCEPT !.failed = TRUE, !.el =
                           CallbackError(@, "upload error")])]
    /\ UNCHANGED <<now, shard, store, lease, xfers, cancels, rets, calls, reported, probe, dl, pd>>

\* lines 315-321: the return after the loop
Finish(w) ==
    LET ret == ReturnValue(wm[w].el, wm[w].matches)
    IN  /\ wm[w].pc = "return"
        /\ Return(w, wm[w], ret.summary, ret.err)
        /\ UNCHANGED <<now, shard, store, lease, xfers, cancels, calls, uploads, faults, probe, dl, pd>>

WithEachMerged(w) ==
    \/ Isolate(w)
    \/ Select(w)
    \/ MergeStep(w)
    \/ Agent(w)
    \/ Save(w)
    \/ Acquire(w)
    \/ Callback(w)
    \/ Finish(w)

-----------------------------------------------------------------------------
(* one store, two concurrent cutoff drivers *)

Next ==
    \/ Tick
    \/ \E id \in FileIDs : XferWriteAch("r1", id)
    \/ \E id \in FileIDs : XferWriteOpts("r1", id)
    \/ \E id \in FileIDs : HandleCancel("r1", id)
    \/ \E w \in {"w1", "w2"} : WithEachMerged(w)

Spec == Init /\ [][Next]_vars

-----------------------------------------------------------------------------
(* claims about one store under concurrent ingress and cutoffs *)

Returned(w) == rets[w].loc.call > 0

\* worker w returns from a call in this step
Returns(w) == rets'[w].loc.call # rets[w].loc.call

Accepted(r) == {id \in FileIDs : xfers[r][id] = "done"}

\* the directories that hold the transfer <id>.ach
Places(r, id) == {Dir(p) : p \in {q \in DOMAIN store[r].files : Base(q) = id \o ".ach"}}

\* C1 (as claimed): every FileID whose HandleXfer returned success is in exactly
\* one directory (the pending one or one batch), never in two, and is missing
\* from storage only when a returned summary reported it or it was tombstoned.
C1_AcceptedNeverLost ==
    \A id \in Accepted("r1") :
        /\ Cardinality(Places("r1", id)) <= 1
        /\ Places("r1", id) = {} => (id \in reported["r1"] \/ id \in cancels["r1"])

\* worker w is in a call that still works on its batch directory (it has not
\* removed it for want of files to upload)
Owns(w) == wm[w].pc \in {"select", "merge"} \/ (wm[w].pc # "idle" /\ wm[w].files # <<>>)

\* C2: concurrent cutoffs on one store never work on the same batch directory;
\* a successful isolation leaves no pending directory behind, so that a cutoff
\* racing on the same pending set fails at isolateMergableDir; and the failing
\* call returns at once, leaving storage, lease and uploads as they were.
C2_OneWinner ==
    [][ /\ \A w, v \in Workers :
              (w # v /\ ReplicaOf(w) = ReplicaOf(v) /\ Owns(w)' /\ Owns(v)')
                  => (wm'[w].dir # wm'[v].dir)
        /\ \A w \in Workers :
              ((wm[w].pc = "idle" /\ wm'[w].pc = "select")
                  => (/\ MergableDir \in store[ReplicaOf(w)].dirs
                      /\ MergableDir \notin store'[ReplicaOf(w)].dirs))
        /\ \A w \in Workers :
              ((wm[w].pc = "idle" /\ Returns(w))
                  => (/\ store' = store /\ lease' = lease /\ uploads' = uploads
                      /\ rets'[w].summary.nil /\ rets'[w].err # <<>>
                      /\ rets'[w].loc.matches = <<>> /\ rets'[w].loc.saved = {}
                      /\ (\/ MergableDir \notin store[ReplicaOf(w)].dirs
                          \/ rets'[w].loc.dir \in store[ReplicaOf(w)].dirs)))
      ]_vars

\* C2 witness: a cutoff lost the race against one that is still in flight on
\* the pending set both were started for
C2_Witness ==
    \E w, v \in Workers :
        /\ w # v /\ ReplicaOf(w) = ReplicaOf(v)
        /\ wm[w].pc # "idle" /\ wm[w].matches # <<>>
        /\ Returned(v) /\ rets[v].loc.call = wm[w].call + 1
        /\ rets[v].err # <<>> /\ rets[v].summary.nil
        /\ MergableDir \notin store[ReplicaOf(w)].dirs

\* C6 (as claimed): a call returns a summary or an error, never both: the
\* summary is nil and the error set if any step failed, else the summary is set
\* and the error nil.
C6_SummaryOrError ==
    \A w \in Workers :
        Returned(w) =>
            IF rets[w].loc.failed
            THEN rets[w].summary.nil /\ rets[w].err # <<>>
            ELSE ~rets[w].summary.nil /\ rets[w].err = <<>>

\* C8 (as claimed): a cutoff that finds no transfer pending returns an empty
\* summary and no error, and leaves no batch directory of its own behind.
C8_EmptyPendingQuiet ==
    [][ \A w \in Workers :
           (Returns(w) /\ rets'[w].loc.pendingEmpty)
               => /\ ~rets'[w].summary.nil
                  /\ rets'[w].summary.fileIDs = <<>>
                  /\ rets'[w].err = <<>>
                  /\ rets'[w].loc.dir \notin store'[ReplicaOf(w)].dirs
      ]_vars

\* the entries of a serialized file
Entries(data) == Range(Flatten(ReadBatches(data)))

\* the FileIDs whose entries the serialized file holds
MergedIDs(data) == {id \in FileIDs : Entries(data) \cap {id, "~" \o id} # {}}

IDsOf(paths) == {TrimSuffix(Base(paths[i]), ".ach") : i \in 1..Len(paths)}

\* C9 (as claimed): the summary a cutoff returns lists the FileID of every
\* transfer it isolated, the cancelled ones included.
C9_SummaryListsCancelled ==
    \A w \in Workers :
        (Returned(w) /\ rets[w].err = <<>>)
            => rets[w].loc.cancelled \subseteq Range(rets[w].summary.fileIDs)

\* C9 (amended): a cancelled transfer contributes to no merged file and is not
\* listed in the summary; the summary of a cutoff that ends without error lists
\* exactly the FileIDs of the isolated transfers that are not cancelled.
C9_SummaryListsSelected ==
    \A w \in Workers :
        LET loc == rets[w].loc
        IN  Returned(w) =>
               /\ Range(rets[w].summary.fileIDs) \cap loc.cancelled = {}
               /\ \A u \in uploads :
                     u.call = loc.call => MergedIDs(u.data) \cap loc.cancelled = {}
               /\ \A p \in loc.saved :
                     p \in DOMAIN store[ReplicaOf(w)].files
                        => MergedIDs(store[ReplicaOf(w)].files[p]) \cap loc.cancelled = {}
               /\ rets[w].err = <<>> =>
                     Range(rets[w].summary.fileIDs) = IDsOf(loc.positives) \ loc.cancelled

\* C9 witness: AAA was cancelled next to BBB; the cutoff has uploaded BBB alone
\* and returned the summary [BBB]
C9_Witness ==
    \E w \in Workers :
        /\ Returned(w) /\ rets[w].err = <<>>
        /\ rets[w].loc.cancelled = {"AAA"}
        /\ IDsOf(rets[w].loc.positives) = {"AAA", "BBB"}
        /\ rets[w].summary.fileIDs = <<"BBB">>
        /\ \E u \in uploads : u.call = rets[w].loc.call /\ MergedIDs(u.data) = {"BBB"}

\* C10 (as claimed): after a failed merge the call saves and uploads nothing,
\* returns the error list, and its batch directory still holds every transfer.
C10_MergeFailureKeepsBatch ==
    [][ \A w \in Workers :
           (Returns(w) /\ rets'[w].loc.mergeFailed)
               => /\ rets'[w].loc.saved = {} /\ rets'[w].loc.leader = {}
                  /\ \A u \in uploads' : u.call # rets'[w].loc.call
                  /\ rets'[w].summary.nil /\ rets'[w].err # <<>>
                  /\ rets'[w].loc.dir \in store'[ReplicaOf(w)].dirs
                  /\ \A i \in 1..Len(rets'[w].loc.positives) :
                        rets'[w].loc.positives[i] \in DOMAIN store'[ReplicaOf(w)].files
      ]_vars

\* C11 (as claimed): a cutoff in which readFile failed for some selected files,
\* and nothing else failed, returns an error list with an entry naming each of
\* them, has offered every readable selected transfer to the upload callback,
\* and leaves its batch directory, with the unreadable files, in storage.
C11_UnreadableKeepsBatch ==
    [][ \A w \in Workers :
           LET loc == rets'[w].loc
               st  == store'[ReplicaOf(w)]
           IN  (Returns(w) /\ loc.pc = "return" /\ loc.unread # {}
                   /\ Len(loc.el) = Cardinality(loc.unread))
               => /\ rets'[w].summary.nil
                  /\ \A p \in loc.unread :
                        \E k \in 1..Len(rets'[w].err) :
                           HasPrefix(rets'[w].err[k], "problem reading " \o p \o ":")
                  /\ loc.follower = {} =>
                        \A p \in Range(loc.matches) \ loc.unread :
                           \E u \in uploads' :
                              /\ u.call = loc.call
                              /\ TrimSuffix(Base(p), ".ach") \in MergedIDs(u.data)
                  /\ loc.dir \in st.dirs
                  /\ loc.unread \subseteq DOMAIN st.files
      ]_vars

\* the *.ach paths directly in dir
AchIn(st, dir) == {p \in DOMAIN st.files : Dir(p) = dir /\ HasSuffix(p, ".ach")}

\* the call of worker w passes isolateMergableDir in this step
Passes(w) == wm[w].pc = "idle" /\ wm'[w].pc = "select"

\* the call of worker w selects and reads its matches in this step
Selects(w) == wm[w].pc = "select" /\ wm'[w].pc = "merge"

Batches(r) ==
    {c \in {wm[w] : w \in Workers} \cup {rets[w].loc : w \in Workers} :
        c.pc # "idle" /\ \E w \in Workers : ReplicaOf(w) = r /\ c.call \in {wm[w].call, rets[w].loc.call}}

CanceledIn(st, dir) == {p \in DOMAIN st.files : Dir(p) = dir /\ HasSuffix(p, ".canceled")}

\* C14: HandleCancel of a pending transfer X leaves the tombstone X.ach.canceled
\* in the pending directory; an isolation that passes moves every tombstone with
\* the batch and leaves nothing pending; and the cutoff passes no tombstoned
\* transfer of its batch to the merge or to the upload callback.
C14_TombstoneHonoured ==
    [][ /\ \A id \in FileIDs :
              (id \in cancels'["r1"] \ cancels["r1"] /\ AchPath(id) \in DOMAIN store["r1"].files)
                  => Join(MergableDir, id \o ".ach.canceled") \in DOMAIN store'["r1"].files
        /\ \A w \in Workers :
              Passes(w)
                  => /\ \A p \in CanceledIn(store[ReplicaOf(w)], MergableDir) :
                           Rebase(p, MergableDir, wm'[w].dir) \in DOMAIN store'[ReplicaOf(w)].files
                     /\ CanceledIn(store'[ReplicaOf(w)], MergableDir) = {}
        /\ \A w \in Workers :
              Selects(w)
                  => /\ wm'[w].cancelled = CancelledIn(store[ReplicaOf(w)], wm[w].dir)
                     /\ IDsOf(wm'[w].matches) \cap wm'[w].cancelled = {}
                     /\ Len(wm'[w].files) <= Len(wm'[w].matches)
        /\ \A w \in Workers :
              (wm[w].pc = "merge" /\ wm'[w].pc = "agent")
                  => \A i \in 1..Len(wm'[w].files) :
                        MergedIDs(AchWrite(wm'[w].files[i])) \cap wm[w].cancelled = {}
        /\ \A u \in uploads' \ uploads :
              \A w \in Workers :
                 u.call = wm[w].call => MergedIDs(u.data) \cap wm[w].cancelled = {}
      ]_vars

\* C14 witness: AAA was cancelled while pending next to BBB; its tombstone sits
\* in the batch directory of the cutoff, which selected BBB alone, and nothing
\* is pending
C14_Witness ==
    \E w \in Workers :
        /\ wm[w].pc = "callback"
        /\ wm[w].cancelled = {"AAA"}
        /\ wm[w].matches = <<Join(wm[w].dir, "BBB.ach")>>
        /\ Join(wm[w].dir, "AAA.ach.canceled") \in DOMAIN store[ReplicaOf(w)].files
        /\ MergableDir \notin store[ReplicaOf(w)].dirs

\* C16 (as claimed): the cutoffs of one shard that pass isolation do so into
\* pairwise distinct batch directories, whose names increase with the order of
\* the cutoffs.
C16_BatchNamesIncrease ==
    \A a, b \in Batches("r1") : a.call < b.call => StrLess(a.dir, b.dir)

\* worker w starts a WithEachMerged call in this step
Starts(w) == wm[w].pc = "idle" /\ calls' = calls + 1 /\ (wm'[w].pc # "idle" \/ Returns(w))

\* C17 (as claimed): when a cutoff stopped at a failing agent or callback, its
\* batch directory persists, and a WithEachMerged call started afterwards takes
\* up the transfers of that batch.
C17_LaterCallResumes ==
    [][ \A w, v \in Workers :
           LET a == rets[w].loc
           IN  (/\ Returned(w) /\ ReplicaOf(w) = ReplicaOf(v)
                /\ a.files # <<>>
                /\ \/ a.pc = "agent"
                   \/ \E u \in uploads : u.call = a.call /\ ~u.ok
                /\ Starts(v))
               => /\ a.dir \in store[ReplicaOf(w)].dirs
                  /\ Passes(v)
                  /\ \A id \in IDsOf(a.matches) :
                        Join(wm'[v].dir, id \o ".ach") \in DOMAIN store'[ReplicaOf(v)].files
      ]_vars

\* C18: every file under a batch's uploaded/ directory is named by the hash of
\* its own bytes, and every merged file handed to the upload callback lies
\* there, under the hash of its serialization, with exactly those bytes.
C18_ContentAddressed ==
    /\ \A r \in Replicas :
          \A p \in DOMAIN store[r].files :
             Base(Dir(p)) = "uploaded" => Base(p) = hash(store[r].files[p]) \o ".ach"
    /\ \A u \in uploads :
          LET p == Join(Join(u.dir, "uploaded"), hash(u.data) \o ".ach")
          IN  /\ p \in DOMAIN store[u.replica].files
              /\ store[u.replica].files[p] = u.data

\* C18 witness: one cutoff has uploaded two merged files with different
\* contents, each saved under its own hash
C18_Witness ==
    \E u, v \in uploads :
        /\ u.call = v.call /\ u.index # v.index /\ u.data # v.data
        /\ Cardinality({p \in DOMAIN store[u.replica].files :
                           Dir(p) = Join(u.dir, "uploaded")}) = 2

\* every entry of the parsed files, in order
EntriesInOrder(files) == Flatten(Flatten([k \in 1..Len(files) |-> files[k].batches]))

\* C25: the files a cutoff hands to the merge are its readable matches, parsed,
\* in the order of its matches, which is the order of Glob; the merge output
\* keeps the entries in that order; and the callback is invoked for the output
\* index the loop stands at, after all lower indices of the call, and the loop
\* then moves to the next index, so no index is handed over twice.
C25_OrderedUploads ==
    [][ /\ \A w \in Workers :
              Selects(w) =>
                 LET st       == store[ReplicaOf(w)]
                     Test(p)  == readFileErr(st, p) = Nil
                     readable == SelectSeq(wm'[w].matches, Test)
                 IN  /\ SubsequenceOf(wm'[w].matches, Glob(st, wm[w].dir, ".ach"))
                     /\ wm'[w].files = [k \in 1..Len(readable) |-> AchRead(st.files[readable[k]])]
        /\ \A w \in Workers :
              (wm[w].pc = "merge" /\ wm'[w].pc = "agent" /\ ~wm'[w].mergeFailed)
                  => EntriesInOrder(wm'[w].files) = EntriesInOrder(wm[w].files)
        /\ \A w \in Workers :
              (wm[w].pc = "callback" /\ wm'[w] # wm[w])
                  => /\ wm'[w].i = wm[w].i + 1
                     /\ \E u \in uploads' :
                           /\ u.call = wm[w].call /\ u.index = wm[w].i - 1
                           /\ u.data = AchWrite(wm[w].files[wm[w].i])
                     /\ \A v \in uploads : v.call = wm[w].call => v.index < wm[w].i - 1
        /\ \A u \in uploads' \ uploads :
              \E w \in Workers :
                 wm[w].pc = "callback" /\ u.call = wm[w].call /\ u.index = wm[w].i - 1
      ]_vars

\* C25 witness: AAA and BBB were selected in this order and merged into two
\* output files; the callback got AAA's under index 0 and BBB's under index 1
C25_Witness ==
    \E w \in Workers :
        /\ Returned(w) /\ Len(rets[w].loc.files) = 2
        /\ IDsOf(rets[w].loc.matches) = {"AAA", "BBB"}
        /\ \E u, v \in uploads :
              /\ u.call = rets[w].loc.call /\ v.call = rets[w].loc.call
              /\ u.index = 0 /\ MergedIDs(u.data) = {"AAA"}
              /\ v.index = 1 /\ MergedIDs(v.data) = {"BBB"}

\* the directories that hold the validation options <id>.json
OptsPlaces(r, id) == {Dir(p) : p \in {q \in DOMAIN store[r].files : Base(q) = id \o ".json"}}

\* C27 (as claimed): the .ach and the .json of a transfer with ValidateOpts are
\* in one directory, and a cutoff that selects the .ach finds the .json next to
\* it when it parses it.
C27_OptsTravelWithFile ==
    [][ /\ \A id \in FileIDs :
              (XferFile(id).validation # Nil /\ Places("r1", id)' # {} /\ OptsPlaces("r1", id)' # {})
                  => Places("r1", id)' = OptsPlaces("r1", id)'
        /\ \A w \in Workers :
              Selects(w) =>
                 \A id \in IDsOf(wm'[w].matches) :
                    XferFile(id).validation # Nil
                        => Join(wm[w].dir, id \o ".json") \in DOMAIN store[ReplicaOf(w)].files
      ]_vars

-----------------------------------------------------------------------------
(* two replicas, each with its own store and cutoff driver, one lease service *)

\* every replica has accepted both transfers
Seeded ==
    WriteFile(WriteFile(WriteFile(EmptyStore,
        AchPath("AAA"), AchWrite(XferFile("AAA"))),
        AchPath("BBB"), AchWrite(XferFile("BBB"))),
        OptsPath("BBB"), EncodeOpts(XferFile("BBB").validation))

InitReplicas ==
    /\ now = 0
    /\ shard \in ShardConfigs
    /\ store = [r \in Replicas |-> Seeded]
    /\ lease = NoHolder
    /\ xfers = [r \in Replicas |-> [id \in FileIDs |-> "done"]]
    /\ cancels = [r \in Replicas |-> {}]
    /\ wm = [w \in Workers |-> IdleWorker]
    /\ rets = [w \in Workers |-> NoReturn]
    /\ calls = 0
    /\ uploads = {}
    /\ reported = [r \in Replicas |-> {}]
    /\ faults = 0
    /\ pd = NoPagerDuty
    /\ probe = NoProbe
    /\ dl = NoDownload

NextReplicas ==
    \/ Tick
    \/ LeaseExpire
    \/ \E w \in {"w1", "w3"} : WithEachMerged(w)

SpecReplicas == InitReplicas /\ [][NextReplicas]_vars

\* C3 (as claimed): no merged output file is handed to the upload callback by
\* two replicas.
C3_OneUploaderPerFile ==
    \A u, v \in uploads : (u.data = v.data) => (u.replica = v.replica)

\* C4 (as claimed): the callbacks for the output files of one cutoff batch of
\* the shard all come from one replica.
C4_OneUploaderPerBatch ==
    \A u, v \in uploads : (u.dir = v.dir /\ u.index # v.index) => (u.replica = v.replica)

\* C7: a call in which AcquireLock failed for every output file, and nothing
\* else failed, has saved every merged file under <batch>/uploaded/, has not
\* invoked the callback, and returns the summary of its matches with no error.
C7_FollowerReturnsSummary ==
    \A w \in Workers :
        LET loc == rets[w].loc
            st  == store[ReplicaOf(w)]
        IN  (Returned(w) /\ ~loc.failed /\ loc.files # <<>>
                /\ loc.follower = 1..Len(loc.files))
            => /\ rets[w].err = <<>>
               /\ rets[w].summary = newProcessedFiles(ShardName, loc.matches)
               /\ \A u \in uploads : u.call # loc.call
               /\ \A i \in 1..Len(loc.files) :
                     LET path == Join(Join(loc.dir, "uploaded"),
                                      hash(AchWrite(loc.files[i])) \o ".ach")
                     IN  /\ path \in DOMAIN st.files
                         /\ st.files[path] = AchWrite(loc.files[i])
               /\ \A v \in Workers :
                     (Returned(v) /\ rets[v].loc.leader # {} /\ rets[v].err = <<>>
                         /\ rets[v].loc.positives = loc.positives)
                     => rets[v].summary = rets[w].summary

\* C7 witness: a follower that was denied the lease for both output files has
\* returned next to a leader that uploaded them
C7_Witness ==
    \E w, v \in Workers :
        /\ Returned(w) /\ ~rets[w].loc.failed
        /\ Len(rets[w].loc.files) = 2 /\ rets[w].loc.follower = {1, 2}
        /\ Returned(v) /\ rets[v].loc.leader = {1, 2} /\ rets[v].err = <<>>
        /\ Len(rets[w].summary.fileIDs) = 2

\* C12: a call in which the upload callback failed, and nothing else was added
\* to the error list, has gone on through every output file: each is saved and
\* fenced, and handed to the callback where the lease was acquired; the call
\* returns no summary and the error list, one entry per failed callback.
C12_CallbackFailureContinues ==
    \A w \in Workers :
        LET loc       == rets[w].loc
            st        == store[ReplicaOf(w)]
            failedUps == {u \in uploads : u.call = loc.call /\ ~u.ok}
        IN  (/\ Returned(w) /\ loc.pc = "return" /\ failedUps # {}
             /\ \A k \in 1..Len(loc.el) : HasPrefix(loc.el[k], "problem from callback: "))
            => /\ rets[w].summary.nil
               /\ rets[w].err = loc.el
               /\ Len(rets[w].err) = Cardinality(failedUps)
               /\ \A j \in 1..Len(loc.files) :
                     /\ Join(Join(loc.dir, "uploaded"), hash(AchWrite(loc.files[j])) \o ".ach")
                           \in DOMAIN st.files
                     /\ j \in loc.leader \cup loc.follower
                     /\ j \in loc.leader =>
                           \E u \in uploads :
                              /\ u.call = loc.call /\ u.index = j - 1
                              /\ u.data = AchWrite(loc.files[j])

\* C12 witness: the callback failed for the first of two output files and was
\* invoked for the second; the call returned the one error
C12_Witness ==
    \E w \in Workers :
        /\ Returned(w) /\ Len(rets[w].loc.files) = 2
        /\ \E u, v \in uploads :
              /\ u.call = rets[w].loc.call /\ v.call = rets[w].loc.call
              /\ u.index = 0 /\ ~u.ok
              /\ v.index = 1 /\ v.ok
        /\ Len(rets[w].err) = 1 /\ rets[w].summary.nil

\* the path saveMergedFile gives output i of the call with locals loc
SavedAs(loc, i) == Join(Join(loc.dir, "uploaded"), hash(AchWrite(loc.files[i])) \o ".ach")

\* C24: for each output file the loop saves, then asks for the lease, then
\* calls back: AcquireLock is called only for a file that lies saved under
\* uploaded/, the callback only for a saved file for which the lease was
\* acquired and is held; a failed save goes to the next file without lease or
\* callback; and the lease is taken at no other place of a call.
C24_SaveFenceUpload ==
    [][ /\ \A w \in Workers :
              (wm[w].pc = "acquire" /\ wm'[w] # wm[w])
                  => /\ SavedAs(wm[w], wm[w].i) \in DOMAIN store[ReplicaOf(w)].files
                     /\ store[ReplicaOf(w)].files[SavedAs(wm[w], wm[w].i)]
                           = AchWrite(wm[w].files[wm[w].i])
        /\ \A w \in Workers :
              (wm[w].pc = "callback" /\ wm'[w] # wm[w])
                  => /\ SavedAs(wm[w], wm[w].i) \in DOMAIN store[ReplicaOf(w)].files
                     /\ wm[w].i \in wm[w].leader
                     /\ lease = ReplicaOf(w)
        /\ \A w \in Workers :
              (wm[w].pc = "save" /\ wm'[w] # wm[w] /\ store' = store)
                  => /\ wm'[w].pc # "acquire" /\ wm'[w].pc # "callback"
                     /\ wm'[w].i = wm[w].i + 1
                     /\ lease' = lease /\ uploads' = uploads
        /\ (lease' # lease /\ lease' # NoHolder)
              => \E w \in Workers :
                    wm[w].pc = "acquire" /\ wm'[w].pc = "callback" /\ lease' = ReplicaOf(w)
        /\ \A u \in uploads' \ uploads :
              \E w \in Workers : wm[w].pc = "callback" /\ u.call = wm[w].call
        /\ \A w \in Workers :
              Returns(w) =>
                 \A u \in uploads' :
                    u.call = rets'[w].loc.call => (u.index + 1) \in rets'[w].loc.leader
      ]_vars

\* C24 witness: saving the first of two output files failed, so it was neither
\* fenced nor uploaded; the second was saved, fenced and uploaded
C24_Witness ==
    \E w \in Workers :
        /\ Returned(w) /\ Len(rets[w].loc.files) = 2
        /\ 1 \notin rets[w].loc.leader \cup rets[w].loc.follower
        /\ rets[w].loc.leader = {2}
        /\ \E u \in uploads : u.call = rets[w].loc.call /\ u.index = 1
        /\ ~\E u \in uploads : u.call = rets[w].loc.call /\ u.index = 0

-----------------------------------------------------------------------------
(* getNonCanceledMatches over the contents of one isolated batch directory *)

BatchDir == NewDir(0)

\* names a pending directory can hold; a FileID may itself end in ".ach" or
\* continue another one
AchNames == {"A.ach", "AA.ach", "A.ach.ach", "B.ach"}

CanceledNames == {"A.ach.canceled", "AA.ach.canceled", "A.ach.ach.canceled",
                  "B.canceled", "C.ach.canceled"}

\* a batch directory holding the given names
BatchOf(names) ==
    [dirs  |-> {BatchDir},
     files |-> [p \in {Join(BatchDir, n) : n \in names} |-> ""]]

InitMatches ==
    /\ now = 0
    /\ shard \in ShardConfigs
    /\ \E P \in SUBSET AchNames, C \in SUBSET CanceledNames :
          /\ store = [r \in Replicas |-> BatchOf(P \cup C)]
          /\ probe = [positive |-> {Join(BatchDir, n) : n \in P},
                      negative |-> {Join(BatchDir, n) : n \in C},
                      out |-> <<>>, done |-> FALSE]
    /\ lease = NoHolder
    /\ xfers = [r \in Replicas |-> [id \in FileIDs |-> "new"]]
    /\ cancels = [r \in Replicas |-> {}]
    /\ wm = [w \in Workers |-> IdleWorker]
    /\ rets = [w \in Workers |-> NoReturn]
    /\ calls = 0
    /\ uploads = {}
    /\ reported = [r \in Replicas |-> {}]
    /\ faults = 0
    /\ pd = NoPagerDuty
    /\ dl = NoDownload

Matches ==
    /\ ~probe.done
    /\ probe' = [probe EXCEPT !.out = getNonCanceledMatches(store["r1"], BatchDir),
                              !.done = TRUE]
    /\ UNCHANGED <<now, shard, store, lease, xfers, cancels, wm, rets, calls, uploads, reported, faults, dl, pd>>

NextMatches == Matches

SpecMatches == InitMatches /\ [][NextMatches]_vars

\* p is an initial segment of c
IsPrefixOf(p, c) == \E n \in 0..Len(c) : SubSeq(c, 1, n) = p

\* C5: getNonCanceledMatches returns exactly the *.ach paths that no *.canceled
\* path starts with, in the order Glob lists them.
C5_NonCanceledExact ==
    probe.done =>
        /\ Range(probe.out) =
              {p \in probe.positive : ~\E c \in probe.negative : IsPrefixOf(p, c)}
        /\ SubsequenceOf(probe.out, Glob(store["r1"], BatchDir, ".ach"))
        /\ Len(probe.out) = Cardinality(Range(probe.out))

\* C5 witness: of three transfers one is excluded by its own tombstone and one
\* by the tombstone of a FileID that continues its name
C5_Witness ==
    /\ probe.done
    /\ probe.positive = {Join(BatchDir, n) : n \in {"A.ach", "AA.ach", "B.ach"}}
    /\ probe.negative = {Join(BatchDir, n) : n \in {"A.ach.ach.canceled", "B.canceled", "AA.ach.canceled"}}
    /\ probe.out = <<Join(BatchDir, "B.ach")>>

\* C15 (as claimed): a tombstone excludes no transfer but the one it was written
\* for: every transfer whose own tombstone <path>.canceled is absent is
\* selected.
C15_TombstoneCancelsOne ==
    probe.done =>
        \A p \in probe.positive :
            (p \o ".canceled") \notin probe.negative => p \in Range(probe.out)

-----------------------------------------------------------------------------
(* internal/incoming/odfi/download.go: CopyFilesFromRemote and writeFiles *)

\* strings.Join(elems, sep)
StringsJoin(elems, sep) == JoinWith(elems, sep)

\* sub occurs in s
Contains(s, sub) ==
    \E k \in 1..(Len(s) - Len(sub) + 1) : SubSeq(s, k, k + Len(sub) - 1) = sub

\* the three directions, in the order CopyFilesFromRemote polls them
Kinds == <<"inbound", "reconciliation", "return">>

\* the files an agent hands out: upload.File{Filename, Contents}
RemoteFiles ==
    {[Filename |-> "a.ach", Contents |-> "1"], [Filename |-> "a.ach", Contents |-> "2"],
     [Filename |-> "b.ach", Contents |-> ""], [Filename |-> "sub/c.ach", Contents |-> "1"]}

\* the lists of at most n remote files
RemoteLists(n) == UNION {[1..k -> RemoteFiles] : k \in 0..n}

\* InboundPath, ReconciliationPath, ReturnPath of the agents polled
AgentPaths == {<<"inbound", "reconciliation", "returned">>, <<"inbound", "inbound", "returned">>}

\* os.MkdirTemp(dl.baseDir, "download")
ScratchDir == Join("storage", "download1")

\* filepath.Join(dir, elem): an empty element adds nothing
FilepathJoin(dir, elem) == IF elem = "" THEN dir ELSE Join(dir, elem)

\* the state of a CopyFilesFromRemote call: the agent (paths, files), the local
\* tree (dirs, tree), the position (pc, kind), the locals of writeFiles (dir,
\* files, i, firstErr, errordFilenames), and the results (out, err).  got
\* records the lists the agent returned; wf records the last writeFiles call:
\* its list, the indices it went through, the filenames that failed, its error.
\* counter is files_downloaded by direction, okCount the files written without
\* a failure by direction; closed holds the indices of the list whose Contents
\* were closed, open the local files created and not closed.  seen lists the
\* entry counts deleteEmptyDirs found, cleanErr is the error it returned.
NewDownload(paths, files) ==
    [pc |-> "setup", paths |-> paths, remote |-> files,
     dirs |-> {"storage"}, tree |-> [q \in {} |-> ""],
     kind |-> 0, dir |-> "", files |-> <<>>, i |-> 0,
     firstErr |-> Nil, errordFilenames |-> <<>>,
     attempted |-> {}, failedNames |-> {},
     got |-> <<>>,
     counter |-> <<0, 0, 0>>, okCount |-> <<0, 0, 0>>,
     closed |-> {}, open |-> {},
     wf |-> [returned |-> FALSE, files |-> <<>>, attempted |-> {}, failedNames |-> {},
             closed |-> {}, open |-> {}, err |-> Nil],
     out |-> Nil, err |-> Nil,
     seen |-> <<>>, cleanErr |-> Nil]

InitDownload ==
    /\ now = 0
    /\ shard \in ShardConfigs
    /\ store = [r \in Replicas |-> EmptyStore]
    /\ lease = NoHolder
    /\ xfers = [r \in Replicas |-> [id \in FileIDs |-> "new"]]
    /\ cancels = [r \in Replicas |-> {}]
    /\ wm = [w \in Workers |-> IdleWorker]
    /\ rets = [w \in Workers |-> NoReturn]
    /\ calls = 0
    /\ uploads = {}
    /\ reported = [r \in Replicas |-> {}]
    /\ faults = 0
    /\ pd = NoPagerDuty
    /\ probe = NoProbe
    /\ \E paths \in AgentPaths :
       \E inbound \in RemoteLists(2), reconciliation \in RemoteLists(1), return \in RemoteLists(1) :
          dl = NewDownload(paths, <<inbound, reconciliation, return>>)

\* os.MkdirAll(path): path and every missing parent
OsMkdirAll(dirs, path) ==
    dirs \cup {path}
         \cup {SubSeq(path, 1, k - 1) : k \in {j \in 2..Len(path) : SubSeq(path, j, j) = "/"}}

\* os.Create(path): the error (Nil: the file exists, empty, afterwards)
OsCreateErr(dirs, path) ==
    IF Dir(path) \in dirs THEN Nil
    ELSE "open " \o path \o ": no such file or directory"

\* CopyFilesFromRemote returns (out, err)
DownloadReturn(d, out, err) == [d EXCEPT !.pc = "done", !.out = out, !.err = err]

\* lines 99-124 and 127-130: setup, and the return on its error
Setup ==
    /\ dl.pc = "setup"
    /\ \/ /\ NoFault
          /\ dl' = [dl EXCEPT !.pc = "get", !.kind = 1, !.out = ScratchDir,
                              !.dirs = OsMkdirAll(OsMkdirAll(OsMkdirAll(@,
                                          FilepathJoin(ScratchDir, dl.paths[1])),
                                          FilepathJoin(ScratchDir, dl.paths[2])),
                                          FilepathJoin(ScratchDir, dl.paths[3]))]
       \/ /\ Fault
          /\ dl' = DownloadReturn(dl, Nil, "mkdir: permission denied")
    /\ UNCHANGED <<now, shard, store, lease, xfers, cancels, wm, rets, calls, uploads, reported, probe, pd>>

\* the zero-byte files left out of the count
CountedNonEmpty(files) == Cardinality({j \in 1..Len(files) : files[j].Contents # ""})

\* line 138 (149, 160): what is added to files_downloaded for the direction
Counted(files) == Len(files)

\* lines 133-139 (and 144-150, 155-161): the agent lists and fetches the files of
\* the direction; writeFiles starts on them (lines 171-174)
GetFiles ==
    /\ dl.pc = "get"
    /\ \/ /\ NoFault
          /\ dl' = [dl EXCEPT !.pc = "write",
                              !.got = Append(@, dl.remote[dl.kind]),
                              !.counter[dl.kind] = @ + Counted(dl.remote[dl.kind]),
                              !.dir = FilepathJoin(dl.out, dl.paths[dl.kind]),
                              !.dirs = OsMkdirAll(@, FilepathJoin(dl.out, dl.paths[dl.kind])),
                              !.files = dl.remote[dl.kind], !.i = 1,
                              !.firstErr = Nil, !.errordFilenames = <<>>,
                              !.attempted = {}, !.failedNames = {},
                              !.closed = {}, !.open = {}]
       \/ /\ Fault
          /\ dl' = DownloadReturn(dl, dl.out,
                      "problem downloading " \o Kinds[dl.kind] \o " files: connection lost")
    /\ UNCHANGED <<now, shard, store, lease, xfers, cancels, wm, rets, calls, uploads, reported, probe, pd>>

\* writeFiles returns err to CopyFilesFromRemote, which returns on an error
\* (lines 139-141) and else goes on to the next direction or returns (line 165)
WriteFilesReturns(d, err) ==
    LET e == [d EXCEPT !.wf = [returned |-> TRUE, files |-> d.files,
                               attempted |-> d.attempted,
                               failedNames |-> d.failedNames,
                               closed |-> d.closed, open |-> d.open, err |-> err]]
    IN  IF err # Nil
        THEN DownloadReturn(e, e.out, "problem saving " \o Kinds[e.kind] \o " files: " \o err)
        ELSE IF e.kind = 3 THEN DownloadReturn(e, e.out, Nil)
        ELSE [e EXCEPT !.pc = "get", !.kind = @ + 1]

\* lines 177-183 and 184-190: the failure is remembered, the loop goes on
Remember(d, filename, err) ==
    [d EXCEPT !.firstErr = IF @ = Nil THEN err ELSE @,
              !.errordFilenames = Append(@, filename),
              !.i = @ + 1]

\* lines 175-201: one iteration of the loop of writeFiles
WriteOne ==
    /\ dl.pc = "write"
    /\ dl.i <= Len(dl.files)
    /\ LET file      == dl.files[dl.i]
           path      == FilepathJoin(dl.dir, file.Filename)
           createErr == OsCreateErr(dl.dirs, path)
           d0        == [dl EXCEPT !.attempted = @ \cup {dl.i}]
           bad       == [d0 EXCEPT !.failedNames = @ \cup {file.Filename}]
           created(data) == [q \in (DOMAIN dl.tree) \cup {path} |->
                                IF q = path THEN data ELSE dl.tree[q]]
       IN  \E outcome \in {"ok", "create", "copy", "sync", "close", "contents"} :
              /\ IF outcome = "ok" /\ createErr = Nil THEN NoFault
                 ELSE IF createErr # Nil THEN outcome = "create" /\ NoFault
                 ELSE Fault
              /\ dl' =
                   CASE outcome = "ok" ->
                          [d0 EXCEPT !.tree = created(file.Contents), !.i = @ + 1,
                                     !.okCount[dl.kind] = @ + 1,
                                     !.closed = @ \cup {dl.i}]
                     [] outcome = "create" ->
                          Remember(bad, file.Filename,
                                   IF createErr # Nil THEN createErr
                                   ELSE "open " \o path \o ": permission denied")
                     [] outcome = "copy" ->
                          Remember([bad EXCEPT !.tree = created(""), !.open = @ \cup {path}],
                                   file.Filename,
                                   "read: connection lost")
                     [] outcome = "sync" ->
                          WriteFilesReturns([bad EXCEPT !.tree = created(file.Contents),
                                                        !.open = @ \cup {path}],
                                            "sync " \o path \o ": input/output error")
                     [] outcome = "close" ->
                          WriteFilesReturns([bad EXCEPT !.tree = created(file.Contents)],
                                            "close " \o path \o ": input/output error")
                     [] outcome = "contents" ->
                          WriteFilesReturns([bad EXCEPT !.tree = created(file.Contents),
                                                        !.closed = @ \cup {dl.i}],
                                            "close: connection lost")
    /\ UNCHANGED <<now, shard, store, lease, xfers, cancels, wm, rets, calls, uploads, reported, probe, pd>>

\* lines 202-205: the return of writeFiles after the loop
WriteFilesEnd ==
    /\ dl.pc = "write"
    /\ dl.i > Len(dl.files)
    /\ dl' = WriteFilesReturns(dl,
                IF Len(dl.errordFilenames) # 0
                THEN "writeFiles problem on: " \o StringsJoin(dl.errordFilenames, ", ")
                        \o ": " \o dl.firstErr
                ELSE Nil)
    /\ UNCHANGED <<now, shard, store, lease, xfers, cancels, wm, rets, calls, uploads, reported, faults, probe, pd>>

NextDownload ==
    \/ Setup
    \/ GetFiles
    \/ WriteOne
    \/ WriteFilesEnd

SpecDownload == InitDownload /\ [][NextDownload]_vars

\* C19 (as claimed): when CopyFilesFromRemote has returned without error, the
\* scratch tree holds one local file for each file the agent returned, in the
\* directory of its direction, under its filename and with its bytes, and no
\* other file.
C19_ScratchMirrorsRemote ==
    (dl.pc = "done" /\ dl.err = Nil) =>
        LET returned == {<<k, j>> \in (1..3) \X (1..2) : j <= Len(dl.got[k])}
        IN  /\ \A kj \in returned :
                  LET file == dl.got[kj[1]][kj[2]]
                      path == FilepathJoin(FilepathJoin(dl.out, dl.paths[kj[1]]), file.Filename)
                  IN  path \in DOMAIN dl.tree /\ dl.tree[path] = file.Contents
            /\ Cardinality(DOMAIN dl.tree) = Cardinality(returned)

\* C20 (as claimed): writeFiles goes through every file of its list whatever
\* fails, returns nil only if no file failed, and else returns an error whose
\* text names every filename that failed.
C20_WriteFilesCollects ==
    dl.wf.returned =>
        /\ dl.wf.attempted = 1..Len(dl.wf.files)
        /\ dl.wf.err = Nil <=> dl.wf.failedNames = {}
        /\ \A name \in dl.wf.failedNames : Contains(dl.wf.err, name)

\* C21 (as claimed): when the agent fails to list one direction, the other two
\* directions are listed and written all the same, the files written so far
\* keep their bytes, and the call returns the scratch directory with the error.
C21_OtherDirectionsProceed ==
    (dl.pc = "done" /\ dl.out # Nil /\ HasPrefix(dl.err, "problem downloading "))
        => /\ \A k \in (1..3) \ {dl.kind} : k <= Len(dl.got)
           /\ \A p \in DOMAIN dl.tree :
                 \E k \in 1..Len(dl.got) : \E j \in 1..Len(dl.got[k]) :
                    /\ p = FilepathJoin(FilepathJoin(dl.out, dl.paths[k]), dl.got[k][j].Filename)
                    /\ dl.tree[p] = dl.got[k][j].Contents

\* C22 (as claimed): after a poll, files_downloaded of each direction has grown
\* by the number of files retrieved for it: the files the agent returned, less
\* those whose local write failed or was never made; nothing for a direction
\* that was not listed.
C22_CounterCountsRetrieved ==
    dl.pc = "done" => \A k \in 1..3 : dl.counter[k] = dl.okCount[k]

\* C22 (amended): after a poll, files_downloaded of each direction has grown by
\* the number of files the agent returned for it, zero-byte files and files
\* whose local write failed included; nothing for a direction whose listing
\* failed or was not reached.
C22_CounterCountsReturned ==
    dl.pc = "done" =>
        \A k \in 1..3 :
            dl.counter[k] = IF k <= Len(dl.got) THEN Len(dl.got[k]) ELSE 0

\* C22 witness: the agent returned a zero-byte file and a file that could not
\* be created locally; both are counted, and the direction not reached is not
C22_Witness ==
    /\ dl.pc = "done"
    /\ Len(dl.got) = 2
    /\ \E j \in 1..Len(dl.got[1]) : dl.got[1][j].Contents = ""
    /\ Len(dl.got[2]) = 1 /\ dl.okCount[2] = 0 /\ dl.counter[2] = 1
    /\ dl.counter[1] = Len(dl.got[1]) /\ dl.counter[3] = 0

\* C26 (as claimed): when writeFiles returns, the Contents of every file of its
\* list are closed and no local file it created is left open.
C26_StreamsClosed ==
    dl.wf.returned =>
        /\ dl.wf.closed = 1..Len(dl.wf.files)
        /\ dl.wf.open = {}

-----------------------------------------------------------------------------
(* download.go: deleteEmptyDirs on the scratch tree of a finished download *)

\* agents whose paths are nested, empty or equal, next to the usual ones
CleanupPaths ==
    {<<"inbound", "reconciliation", "returned">>, <<"a/b", "a", "r">>, <<"a", "a/b", "r">>,
     <<"", "x", "y">>, <<"x", "y", "">>, <<"in", "in", "r">>}

InitCleanup ==
    /\ now = 0
    /\ shard \in ShardConfigs
    /\ store = [r \in Replicas |-> EmptyStore]
    /\ lease = NoHolder
    /\ xfers = [r \in Replicas |-> [id \in FileIDs |-> "new"]]
    /\ cancels = [r \in Replicas |-> {}]
    /\ wm = [w \in Workers |-> IdleWorker]
    /\ rets = [w \in Workers |-> NoReturn]
    /\ calls = 0
    /\ uploads = {}
    /\ reported = [r \in Replicas |-> {}]
    /\ faults = 0
    /\ pd = NoPagerDuty
    /\ probe = NoProbe
    /\ \E paths \in CleanupPaths :
       \E inbound \in RemoteLists(1), reconciliation \in RemoteLists(1), return \in RemoteLists(1) :
          dl = NewDownload(paths, <<inbound, reconciliation, return>>)

\* lines 74-80: the number of entries of the directory, -1 if it cannot be read
count(d, path) ==
    IF path \notin d.dirs THEN -1
    ELSE Cardinality({q \in DOMAIN d.tree : Dir(q) = path}
                        \cup {q \in d.dirs : Dir(q) = path})

\* os.RemoveAll(path): path and everything below it
OsRemoveAll(d, path) ==
    [d EXCEPT !.dirs = {q \in @ : q # path /\ ~Under(q, path)},
              !.tree = [q \in {x \in DOMAIN @ : ~Under(x, path)} |-> @[q]]]

\* a directory with a single entry taken for empty
CountBelowTwo(n) == n <= 1

\* lines 81, 86, 91: count(path) == 0
IsEmptyCount(n) == n = 0

\* lines 81-85 (86-90, 91-95): the k-th subtree is removed if it has no entry;
\* after a failed removal nothing more is done
DeleteIfEmpty(d, k, failAt) ==
    LET path == FilepathJoin(d.out, d.paths[k])
        n    == count(d, path)
        e    == [d EXCEPT !.seen = Append(@, n)]
    IN  IF d.cleanErr # Nil THEN d
        ELSE IF ~IsEmptyCount(n) THEN e
        ELSE IF failAt = k
             THEN [e EXCEPT !.cleanErr = "delete " \o Kinds[k] \o ": permission denied"]
             ELSE OsRemoveAll(e, path)

\* lines 73-97
DeleteEmptyDirs ==
    /\ dl.pc = "done"
    /\ dl.out # Nil
    /\ \E failAt \in 0..3 :
          LET d == DeleteIfEmpty(DeleteIfEmpty(DeleteIfEmpty(dl, 1, failAt), 2, failAt), 3, failAt)
          IN  /\ (failAt # 0) <=> (d.cleanErr # Nil)
              /\ IF failAt = 0 THEN NoFault ELSE Fault
              /\ dl' = [d EXCEPT !.pc = "cleaned"]
    /\ UNCHANGED <<now, shard, store, lease, xfers, cancels, wm, rets, calls, uploads, reported, probe, pd>>

NextCleanup ==
    \/ Setup
    \/ GetFiles
    \/ WriteOne
    \/ WriteFilesEnd
    \/ DeleteEmptyDirs

SpecCleanup == InitCleanup /\ [][NextCleanup]_vars

\* deleteEmptyDirs runs in this step and returns nil
Cleans == dl.pc = "done" /\ dl'.pc = "cleaned" /\ dl'.cleanErr = Nil

\* the k-th subtree of the scratch tree
Subtree(k) == FilepathJoin(dl.out, dl.paths[k])

\* the files at or below dir
FilesBelow(d, dir) == {q \in DOMAIN d.tree : Under(q, dir)}

\* C23 (as claimed): deleteEmptyDirs removes exactly those of the three subtrees
\* that have no entry when it is called, and changes no downloaded file.
C23_RemovesExactlyEmpty ==
    [][ Cleans =>
           /\ dl'.tree = dl.tree
           /\ \A k \in 1..3 : (Subtree(k) \notin dl'.dirs) <=> (count(dl, Subtree(k)) = 0)
      ]_vars

\* C23 (amended): deleteEmptyDirs looks at the inbound, reconciliation and
\* return subtree in this order and removes a subtree exactly if it has no entry
\* at that moment.  It changes no downloaded file and removes no directory with
\* a file below it, and it removes every subtree that was empty at the call;
\* a directory it removes is one of the subtrees found empty, or lies below one.
C23_RemovesEmptyInOrder ==
    [][ Cleans =>
           /\ dl'.tree = dl.tree
           /\ Len(dl'.seen) = 3
           /\ \A q \in dl.dirs \ dl'.dirs :
                 /\ FilesBelow(dl, q) = {}
                 /\ \E k \in 1..3 :
                       /\ dl'.seen[k] = 0
                       /\ q = Subtree(k) \/ Under(q, Subtree(k))
           /\ \A k \in 1..3 :
                 /\ dl'.seen[k] = 0 => Subtree(k) \notin dl'.dirs
                 /\ count(dl, Subtree(k)) = 0 => Subtree(k) \notin dl'.dirs
                 /\ FilesBelow(dl, Subtree(k)) # {} => Subtree(k) \in dl'.dirs
      ]_vars

\* C23 witness: the inbound subtree a/b lies below the reconciliation subtree
\* a; both were removed, the parent after its child, and the return subtree,
\* which holds a downloaded file, was kept
C23_Witness ==
    /\ dl.pc = "cleaned" /\ dl.cleanErr = Nil
    /\ dl.paths = <<"a/b", "a", "r">>
    /\ dl.seen = <<0, 0, 1>>
    /\ Join(ScratchDir, "a") \notin dl.dirs
    /\ Join(Join(ScratchDir, "r"), "a.ach") \in DOMAIN dl.tree

-----------------------------------------------------------------------------
(* internal/notify/pagerduty.go: the PagerDuty sink *)

MaxMessages == 3

\* the directions of a Message
Upload == "upload"

Download == "download"

\* the messages the notifier hands to the sink
Messages == [Direction : {Upload, Download}, Filename : {"a.ach", "b.ach"}]

\* the sink after NewPagerDuty: requests are the CreateIncident calls made,
\* incidents those PagerDuty created, n the number of messages handled, last
\* the last call of Info or Critical and the error it returned
NewPagerDuty(serviceKey) ==
    [serviceKey |-> serviceKey, from |-> "ach@example.com", requests |-> <<>>,
     incidents |-> <<>>, n |-> 0, last |-> [op |-> "", msg |-> Nil, err |-> Nil]]

InitNotify ==
    /\ now = 0
    /\ shard \in ShardConfigs
    /\ store = [r \in Replicas |-> EmptyStore]
    /\ lease = NoHolder
    /\ xfers = [r \in Replicas |-> [id \in FileIDs |-> "new"]]
    /\ cancels = [r \in Replicas |-> {}]
    /\ wm = [w \in Workers |-> IdleWorker]
    /\ rets = [w \in Workers |-> NoReturn]
    /\ calls = 0
    /\ uploads = {}
    /\ reported = [r \in Replicas |-> {}]
    /\ faults = 0
    /\ probe = NoProbe
    /\ dl = NoDownload
    /\ \E serviceKey \in {"PSVC1", "PSVC2"} : pd = NewPagerDuty(serviceKey)

\* low urgency whatever the direction
UrgencyAlwaysLow(direction) == "low"

\* lines 71-74: downloads are of low urgency, the rest is left unset
Urgency(direction) == IF direction = Download THEN "low" ELSE ""

\* lines 59-74: the options of the incident for msg
IncidentOptions(serviceKey, msg) ==
    [Type    |-> "incident",
     Title   |-> "ERROR during file " \o msg.Direction,
     Body    |-> [Type |-> "incident_body",
                  Details |-> "FAILURE on " \o msg.Direction \o " of " \o msg.Filename],
     Service |-> [Type |-> "service_reference", ID |-> serviceKey],
     Urgency |-> Urgency(msg.Direction)]

\* lines 53-56
Info(msg) ==
    /\ pd.n < MaxMessages
    /\ pd' = [pd EXCEPT !.n = @ + 1, !.last = [op |-> "Info", msg |-> msg, err |-> Nil]]
    /\ UNCHANGED <<now, shard, store, lease, xfers, cancels, wm, rets, calls, uploads, reported, faults, probe, dl>>

\* lines 58-82: Critical and createIncident
Critical(msg) ==
    LET opts == IncidentOptions(pd.serviceKey, msg)
    IN  /\ pd.n < MaxMessages
        /\ \/ /\ NoFault
              /\ pd' = [pd EXCEPT !.n = @ + 1, !.requests = Append(@, opts),
                                  !.incidents = Append(@, opts),
                                  !.last = [op |-> "Critical", msg |-> msg, err |-> Nil]]
           \/ /\ Fault
              /\ pd' = [pd EXCEPT !.n = @ + 1, !.requests = Append(@, opts),
                                  !.last = [op |-> "Critical", msg |-> msg,
                                            err |-> "pagerduty: 429 too many requests"]]
        /\ UNCHANGED <<now, shard, store, lease, xfers, cancels, wm, rets, calls, uploads, reported, probe, dl>>

NextNotify ==
    \/ \E msg \in Messages : Info(msg)
    \/ \E msg \in Messages : Critical(msg)

SpecNotify == InitNotify /\ [][NextNotify]_vars

\* C28: Info asks PagerDuty for nothing and returns nil; Critical asks for one
\* incident, of the configured service, about the direction and the file of the
\* message, of urgency "low" exactly for a download; the incident is created
\* unless the request fails, and Critical returns the error of the request.
C28_PagesOnCritical ==
    [][ (pd'.n = pd.n + 1) =>
           LET msg == pd'.last.msg
           IN  IF pd'.last.op = "Info"
               THEN /\ pd'.requests = pd.requests
                    /\ pd'.incidents = pd.incidents
                    /\ pd'.last.err = Nil
               ELSE /\ pd'.last.op = "Critical"
                    /\ Len(pd'.requests) = Len(pd.requests) + 1
                    /\ SubSeq(pd'.requests, 1, Len(pd.requests)) = pd.requests
                    /\ LET o == pd'.requests[Len(pd'.requests)]
                       IN  /\ o.Type = "incident"
                           /\ o.Service.ID = pd.serviceKey
                           /\ (o.Urgency = "low") <=> (msg.Direction = "download")
                           /\ Contains(o.Body.Details, msg.Filename)
                           /\ Contains(o.Title, msg.Direction)
                           /\ IF pd'.last.err = Nil
                              THEN pd'.incidents = Append(pd.incidents, o)
                              ELSE pd'.incidents = pd.incidents
      ]_vars

\* C28 witness: a critical download paged with low urgency, a critical upload
\* paged without it, and an Info message after them paged nobody
C28_Witness ==
    /\ pd.n = 3 /\ pd.last.op = "Info"
    /\ Len(pd.incidents) = 2
    /\ pd.incidents[1].Urgency = "low" /\ Contains(pd.incidents[1].Title, "download")
    /\ pd.incidents[2].Urgency = "" /\ Contains(pd.incidents[2].Title, "upload")

====
